---- MODULE Spec2Model ----
(***************************************************************************)
(* BaseElement (model/elements/base_element.py): a descriptor              *)
(* (driver, selector, locator) over a browser driver.  Every lookup        *)
(* resolves against the live document; format() is a scoped rewrite of     *)
(* the selector; is_clickable / is_visible poll the driver's wait.         *)
(*                                                                         *)
(* A string is a sequence of chunks; the chunks "{" and "}" are the brace  *)
(* characters, every other chunk is ordinary text.                         *)
(***************************************************************************)
EXTENDS Integers, Sequences, FiniteSets, TLC

VARIABLES
    selector,   \* self.selector
    locator,    \* self.locator
    driver,     \* self.driver (a handle; the document and the url live behind it)
    ctor,       \* the arguments __init__ was called with
    frames,     \* the live format() generator frames: their original_selector
    scopes,     \* per active format scope: selector before entry, selector made active
    doc,        \* the current document: the ordered sequence of live nodes
    url,        \* driver.current_url
    pc,         \* "idle", "polling" (inside WebDriverWait.until), "after_wait"
    wait,       \* the running wait: operation, timeout, elapsed time, polls observed
    last        \* outcome of the operation that has just completed

vars == <<selector, locator, driver, ctor, frames, scopes, doc, url, pc, wait, last>>

\* ------------------------------------------------------------------ bounds

MaxNodes == 2      \* nodes in the document
MaxDepth == 2      \* nested format scopes
MaxArgs == 1       \* positional arguments of one format call
MaxTimeout == 1    \* timeout of a wait, in poll intervals
MaxSleep == 2      \* the longest one sleep between two polls may take

\* ----------------------------------------------------------------- strings

Div3 == <<".//div[", "3", "]">>
DivTemplate == <<".//div[", "{", "}", "]">>
AnchorTemplate == <<".//a[", "{", "0", "}", "][", "{", "k", "}", "]">>
EscapedTemplate == <<".//p[", "{", "{", "}", "}", "]">>

Digits == {"0", "1", "2", "3", "4", "5", "6", "7", "8", "9"}

DigitVal(c) ==
    CASE c = "0" -> 0 [] c = "1" -> 1 [] c = "2" -> 2 [] c = "3" -> 3 [] c = "4" -> 4
      [] c = "5" -> 5 [] c = "6" -> 6 [] c = "7" -> 7 [] c = "8" -> 8 [] c = "9" -> 9

RECURSIVE DecimalVal(_)
DecimalVal(name) ==
    IF name = <<>> THEN 0
    ELSE 10 * DecimalVal(SubSeq(name, 1, Len(name) - 1)) + DigitVal(name[Len(name)])

IsDigits(name) == name # <<>> /\ \A i \in 1..Len(name) : name[i] \in Digits

\* the position of the first "}" after position i, 0 when there is none
FirstClose(s, i) ==
    LET cands == {j \in (i + 1)..Len(s) : s[j] = "}"}
    IN  IF cands = {} THEN 0 ELSE CHOOSE j \in cands : \A k \in cands : j <= k

FmtOk(out) == [ok |-> TRUE, val |-> out, exc |-> "none"]
FmtErr(e) == [ok |-> FALSE, val |-> <<>>, exc |-> e]

\* str.format(*args, **kwargs), scanning s from position i.  mode is "none",
\* "auto" or "manual" (the field numbering seen so far), n the next automatic
\* index, out the text produced so far.
RECURSIVE FormatFrom(_, _, _, _, _, _, _)
FormatFrom(s, i, args, kwargs, mode, n, out) ==
    IF i > Len(s) THEN FmtOk(out)
    ELSE IF s[i] = "{" THEN
        IF i < Len(s) /\ s[i + 1] = "{"
        THEN FormatFrom(s, i + 2, args, kwargs, mode, n, Append(out, "{"))
        ELSE LET j == FirstClose(s, i)
                 name == SubSeq(s, i + 1, j - 1)
             IN  IF j = 0 THEN FmtErr("ValueError")
                 ELSE IF \E k \in 1..Len(name) : name[k] = "{" THEN FmtErr("ValueError")
                 ELSE IF name = <<>> THEN
                     IF mode = "manual" THEN FmtErr("ValueError")
                     ELSE IF n >= Len(args) THEN FmtErr("IndexError")
                     ELSE FormatFrom(s, j + 1, args, kwargs, "auto", n + 1, out \o args[n + 1])
                 ELSE IF IsDigits(name) THEN
                     IF mode = "auto" THEN FmtErr("ValueError")
                     ELSE IF DecimalVal(name) >= Len(args) THEN FmtErr("IndexError")
                     ELSE FormatFrom(s, j + 1, args, kwargs, "manual", n,
                                     out \o args[DecimalVal(name) + 1])
                 ELSE IF name \in DOMAIN kwargs
                     THEN FormatFrom(s, j + 1, args, kwargs, mode, n, out \o kwargs[name])
                     ELSE FmtErr("KeyError")
    ELSE IF s[i] = "}" THEN
        IF i < Len(s) /\ s[i + 1] = "}"
        THEN FormatFrom(s, i + 2, args, kwargs, mode, n, Append(out, "}"))
        ELSE FmtErr("ValueError")
    ELSE FormatFrom(s, i + 1, args, kwargs, mode, n, Append(out, s[i]))

StrFormat(s, args, kwargs) == FormatFrom(s, 1, args, kwargs, "none", 0, <<>>)

\* f'{self.selector=}'
Repr(sel) == <<"self.selector='">> \o sel \o <<"'">>

\* ------------------------------------------------------- python sequences

\* an optional integer: None or a value
None == [none |-> TRUE, v |-> 0]
Some(i) == [none |-> FALSE, v |-> i]

Max(a, b) == IF a >= b THEN a ELSE b
Min(a, b) == IF a <= b THEN a ELSE b

\* list[i]: the element, or IndexError
PyIndexOk(seq, i) == -Len(seq) <= i /\ i < Len(seq)
PyIndex(seq, i) == IF i < 0 THEN seq[Len(seq) + i + 1] ELSE seq[i + 1]

\* slice.indices() for step None: a bound clamped into 0..len
PyClamp(b, len, dflt) ==
    IF b.none THEN dflt
    ELSE IF b.v < 0 THEN Max(b.v + len, 0)
    ELSE Min(b.v, len)

\* list[a:b]: never an IndexError
PySlice(seq, a, b) ==
    LET start == PyClamp(a, Len(seq), 0)
        stop == PyClamp(b, Len(seq), Len(seq))
    IN  IF stop <= start THEN <<>> ELSE SubSeq(seq, start + 1, stop)

\* -------------------------------------------------------------- exceptions

NoExc == [type |-> "none", element |-> <<>>, url |-> "", args |-> <<>>]
Exc(type, element, u, args) == [type |-> type, element |-> element, url |-> u, args |-> args]
\* an exception of the driver library, as the driver raises it
DriverExc(type) == Exc(type, <<>>, "", <<>>)
\* one free-form context argument of an element error
ExcArg(fmt, str, num) == [fmt |-> fmt, str |-> str, num |-> num]

\* the base classes of the driver library's exceptions
DriverBases(type) ==
    IF type \in {"NoSuchElementException", "ElementClickInterceptedException",
                 "ElementNotInteractableException", "TimeoutException"}
    THEN {"WebDriverException", "Exception"}
    ELSE {"Exception"}

\* the base classes of the element errors of model.errors.element: a taxonomy of
\* its own, apart from the driver's exceptions
ErrorBases(type) == {"ElementError", "Exception"}

ElementErrors == {"ElementNotFoundError", "ElementNotVisibleError",
                  "ElementNotClickableError", "ElementVisibleError"}

\* "except cls" catches an exception of this type
IsInstance(type, cls) ==
    \/ type = cls
    \/ cls \in (IF type \in ElementErrors THEN ErrorBases(type) ELSE DriverBases(type))

\* the outcome of a call: a value returned or an exception raised
Ret(v) == [raised |-> FALSE, value |-> v, exc |-> NoExc]
Raise(e) == [raised |-> TRUE, value |-> "None", exc |-> e]

\* ------------------------------------------------------------- the driver

Locators == {"xpath", "css selector"}
Urls == {"https://site/a", "https://site/b"}
NodeSelectors == {Div3, DivTemplate}

\* a live node: the lookup it answers to and its state (hidden, disabled,
\* obstructed by another node, or displayed, enabled and free)
Nodes ==
    {n \in [by : {"xpath"}, sel : NodeSelectors, displayed : BOOLEAN,
            enabled : BOOLEAN, obstructed : BOOLEAN] :
        /\ n.obstructed => (n.displayed /\ n.enabled)
        /\ ~n.displayed => n.enabled}

Matches(n, by, sel) == n.by = by /\ n.sel = sel

\* driver.find_elements(by, sel)
find_elements(by, sel) == SelectSeq(doc, LAMBDA n : Matches(n, by, sel))

\* driver.find_element(by, sel)
find_element(by, sel) ==
    IF find_elements(by, sel) = <<>>
    THEN Raise(DriverExc("NoSuchElementException"))
    ELSE Ret(Head(find_elements(by, sel)))

\* WebElement.click()
node_click(n) ==
    IF ~n.displayed THEN Raise(DriverExc("ElementNotInteractableException"))
    ELSE IF n.obstructed THEN Raise(DriverExc("ElementClickInterceptedException"))
    ELSE Ret("None")

\* WebElement.text: the rendered text, empty for a node that is not displayed
node_text(n) == IF n.displayed THEN <<"text">> ELSE <<>>

AttrNames == {"disabled", "id"}
\* WebElement.get_attribute(name)
node_get_attribute(n, name) ==
    IF name = "disabled" /\ ~n.enabled THEN <<"true">> ELSE <<"None">>

\* ------------------------------------------------- BaseElement, the methods

\* the elements property
elements == find_elements(locator, selector)

element_untranslated == find_element(locator, selector)

\* the element property
element ==
    LET r == find_element(locator, selector)
    IN  IF r.raised /\ IsInstance(r.exc.type, "NoSuchElementException")
        THEN Raise(Exc("ElementNotFoundError", Repr(selector), url, <<>>))
        ELSE r

getitem_uncaught(index) ==
    IF PyIndexOk(elements, index)
    THEN Ret(PyIndex(elements, index))
    ELSE Raise(DriverExc("IndexError"))

\* __getitem__(index: int)
getitem(index) ==
    IF PyIndexOk(elements, index)
    THEN Ret(PyIndex(elements, index))
    ELSE Raise(Exc("ElementNotFoundError", Repr(selector), url,
                   <<ExcArg("Element with {index=} is not exist.", "", index)>>))

getitem_slice_strict(a, b) ==
    IF ~a.none /\ a.v >= Len(elements)
    THEN Raise(Exc("ElementNotFoundError", Repr(selector), url,
                   <<ExcArg("Element with {index=} is not exist.", "", a.v)>>))
    ELSE Ret(PySlice(elements, a, b))

\* __getitem__(index: slice)
getitem_slice(a, b) == Ret(PySlice(elements, a, b))

\* __len__
len == Ret(Len(elements))

is_enabled == IF element.raised THEN element ELSE Ret(element.value.enabled)

click_untranslated == IF element.raised THEN element ELSE node_click(element.value)

click ==
    LET c == IF element.raised THEN element ELSE node_click(element.value)
    IN  IF c.raised /\ IsInstance(c.exc.type, "ElementClickInterceptedException")
        THEN Raise(Exc("ElementNotClickableError", Repr(selector), url, <<>>))
        ELSE c

is_present_now ==
    IF element.raised
    THEN IF IsInstance(element.exc.type, "NoSuchElementException") THEN Ret(FALSE) ELSE element
    ELSE Ret(TRUE)

is_visible_now ==
    IF element.raised
    THEN IF IsInstance(element.exc.type, "NoSuchElementException") THEN Ret(FALSE) ELSE element
    ELSE Ret(element.value.displayed)

text == IF element.raised THEN element ELSE Ret(node_text(element.value))

get_attribute(name) ==
    IF element.raised THEN element ELSE Ret(node_get_attribute(element.value, name))

format_selector_of_template(args, kwargs) == StrFormat(ctor.selector, args, kwargs)

\* format, lines 82-84: the selector the scope makes active
format_selector(args, kwargs) == StrFormat(selector, args, kwargs)

format_restore_without_finally(frame, bodyRaised) ==
    IF bodyRaised THEN selector ELSE frame.original_selector

format_restore_never(frame, bodyRaised) == selector

\* format, lines 86-87: the selector on scope exit; bodyRaised tells whether the
\* body left by an exception
format_restore(frame, bodyRaised) == frame.original_selector

\* ------------------------------------------------------------- the waits

\* what one evaluation of a wait condition gives: a truthy value, a falsy one, or
\* an exception
EcRet(truthy, v) == [raised |-> FALSE, truthy |-> truthy, value |-> v, exc |-> NoExc]
EcRaise(e) == [raised |-> TRUE, truthy |-> FALSE, value |-> "None", exc |-> e]

\* EC.visibility_of_element_located((locator, selector)) applied to the driver
visibility_of_element_located ==
    LET r == find_element(locator, selector)
    IN  IF r.raised THEN EcRaise(r.exc)
        ELSE IF r.value.displayed THEN EcRet(TRUE, r.value) ELSE EcRet(FALSE, "None")

\* EC.element_to_be_clickable((locator, selector)) applied to the driver
element_to_be_clickable ==
    LET r == find_element(locator, selector)
    IN  IF r.raised THEN EcRaise(r.exc)
        ELSE IF r.value.displayed /\ r.value.enabled
             THEN EcRet(TRUE, r.value) ELSE EcRet(FALSE, "None")

\* the condition an operation waits for
condition(op) ==
    IF op = "is_visible" THEN visibility_of_element_located ELSE element_to_be_clickable

until_ignoring_nothing(r, t, timeout) ==
    IF r.raised THEN "raise"
    ELSE IF r.truthy THEN "value"
    ELSE IF t > timeout THEN "TimeoutException"
    ELSE "continue"

\* One turn of WebDriverWait(driver, timeout).until(method): r is what the
\* condition gave, t the time elapsed once the sleep after it is over.
until(r, t, timeout) ==
    IF r.raised /\ ~IsInstance(r.exc.type, "NoSuchElementException") THEN "raise"
    ELSE IF ~r.raised /\ r.truthy THEN "value"
    ELSE IF t > timeout THEN "TimeoutException"
    ELSE "continue"

\* is_clickable / is_visible, given how until() ended
is_waited(outcome, r) ==
    IF outcome = "value" THEN Ret(TRUE)
    ELSE IF outcome = "TimeoutException" THEN Ret(FALSE)
    ELSE Raise(r.exc)

\* wait_for_clickability, once is_clickable(timeout) has returned clickable
wait_for_clickability(clickable, timeout, error_msg) ==
    IF ~clickable
    THEN Raise(Exc("ElementNotClickableError", Repr(selector), url,
                   <<ExcArg("{error_msg}", IF error_msg = "None" THEN "" ELSE error_msg, 0),
                     ExcArg("Error raised after {timeout=}s.", "", timeout)>>))
    ELSE element

\* -------------------------------------------------------------- the state

Descriptors ==
    {[selector |-> DivTemplate, locator |-> "xpath"],
     [selector |-> DivTemplate, locator |-> "css selector"],
     [selector |-> AnchorTemplate, locator |-> "xpath"],
     [selector |-> EscapedTemplate, locator |-> "xpath"]}

ArgVals == {<<"3">>, <<"{", "}">>}
KwNames == {<<"k">>}

RECURSIVE SeqsUpTo(_, _)
SeqsUpTo(S, n) ==
    IF n = 0 THEN {<<>>}
    ELSE SeqsUpTo(S, n - 1) \cup {Append(q, x) : q \in SeqsUpTo(S, n - 1), x \in S}

ArgLists == SeqsUpTo(ArgVals, MaxArgs)
KwargMaps == UNION {[D -> {<<"3">>}] : D \in SUBSET KwNames}
Indexes == (-MaxNodes - 1)..(MaxNodes + 1)
SliceBounds == {None} \cup {Some(i) : i \in (-1)..(MaxNodes + 1)}
Timeouts == 0..MaxTimeout
Messages == {"None", "not clickable"}
BodyExceptions == {DriverExc("AssertionError"), DriverExc("NoSuchElementException")}

NoWait == [op |-> "none", timeout |-> 0, error_msg |-> "None", elapsed |-> 0,
           obs |-> <<>>, clickable |-> FALSE]
NoResult == [op |-> "none", arg |-> "None", raised |-> FALSE, value |-> "None",
             exc |-> NoExc, obs |-> <<>>]
Result(op, arg, r, obs) ==
    [op |-> op, arg |-> arg, raised |-> r.raised, value |-> r.value, exc |-> r.exc,
     obs |-> obs]

Init ==
    /\ \E d \in Descriptors : /\ selector = d.selector
                              /\ locator = d.locator
                              /\ ctor = [selector |-> d.selector, locator |-> d.locator,
                                         driver |-> "driver"]
    /\ driver = "driver"
    /\ frames = <<>>
    /\ scopes = <<>>
    /\ doc = <<>>
    /\ url \in Urls
    /\ pc = "idle"
    /\ wait = NoWait
    /\ last = NoResult

\* a call that reads the document through the descriptor and changes nothing
Query(op, arg, r) ==
    /\ pc = "idle"
    /\ last' = Result(op, arg, r, <<>>)
    /\ UNCHANGED <<selector, locator, driver, ctor, frames, scopes, doc, url, pc, wait>>

Call_element == Query("element", "None", element)
Call_elements == Query("elements", "None", Ret(elements))
Call_getitem == \E i \in Indexes : Query("getitem", i, getitem(i))
Call_getitem_slice ==
    \E a \in SliceBounds, b \in SliceBounds :
        Query("getitem_slice", [start |-> a, stop |-> b], getitem_slice(a, b))
Call_len == Query("len", "None", len)
Call_is_enabled == Query("is_enabled", "None", is_enabled)
Call_click == Query("click", "None", click)
Call_is_present_now == Query("is_present_now", "None", is_present_now)
Call_is_visible_now == Query("is_visible_now", "None", is_visible_now)
Call_text == Query("text", "None", text)
Call_get_attribute == \E name \in AttrNames : Query("get_attribute", name, get_attribute(name))

\* with element.format(*args, **kwargs): entering the scope
Call_format ==
    \E args \in ArgLists, kwargs \in KwargMaps :
        LET original_selector == selector
            f == format_selector(args, kwargs)
            call == [before |-> selector, args |-> args, kwargs |-> kwargs]
            scope == [before |-> selector, active |-> f.val]
        IN  /\ pc = "idle"
            /\ Len(frames) < MaxDepth
            /\ IF f.ok
               THEN /\ selector' = f.val
                    /\ frames' = Append(frames, [original_selector |-> original_selector])
                    /\ scopes' = Append(scopes, scope)
                    /\ last' = Result("format", call, Ret("self"), <<>>)
               ELSE /\ selector' = original_selector
                    /\ UNCHANGED <<frames, scopes>>
                    /\ last' = Result("format", call, Raise(DriverExc(f.exc)), <<>>)
            /\ UNCHANGED <<locator, driver, ctor, doc, url, pc, wait>>

\* leaving the innermost scope: the body returned, or raised e
Exit_format ==
    \E bodyRaised \in BOOLEAN, e \in BodyExceptions :
        /\ pc = "idle"
        /\ frames # <<>>
        /\ bodyRaised \/ e = DriverExc("AssertionError")
        /\ selector' = format_restore(frames[Len(frames)], bodyRaised)
        /\ frames' = SubSeq(frames, 1, Len(frames) - 1)
        /\ scopes' = SubSeq(scopes, 1, Len(scopes) - 1)
        /\ last' = Result("format_exit",
                          [scope |-> scopes[Len(scopes)], bodyRaised |-> bodyRaised,
                           bodyExc |-> e],
                          IF bodyRaised THEN Raise(e) ELSE Ret("None"), <<>>)
        /\ UNCHANGED <<locator, driver, ctor, doc, url, pc, wait>>

\* is_clickable(timeout), is_visible(timeout), wait_for_clickability(timeout,
\* error_msg): the call enters WebDriverWait.until
Call_wait ==
    \E op \in {"is_clickable", "is_visible", "wait_for_clickability"},
       timeout \in Timeouts, msg \in Messages :
        /\ pc = "idle"
        /\ op # "wait_for_clickability" => msg = "None"
        /\ pc' = "polling"
        /\ wait' = [op |-> op, timeout |-> timeout, error_msg |-> msg, elapsed |-> 0,
                    obs |-> <<>>, clickable |-> FALSE]
        /\ last' = NoResult
        /\ UNCHANGED <<selector, locator, driver, ctor, frames, scopes, doc, url>>

\* whether the condition of the wait holds in the document as it is now
ConditionHolds(op) ==
    \E i \in 1..Len(doc) :
        /\ Matches(doc[i], locator, selector)
        /\ \A j \in 1..(i - 1) : ~Matches(doc[j], locator, selector)
        /\ doc[i].displayed
        /\ op # "is_visible" => doc[i].enabled

\* one poll of until(): evaluate the condition, then sleep d
Poll ==
    \E d \in 1..MaxSleep :
        LET r == condition(wait.op)
            t == wait.elapsed + d
            outcome == until(r, t, wait.timeout)
            obs == Append(wait.obs, [at |-> wait.elapsed, held |-> ConditionHolds(wait.op)])
        IN  /\ pc = "polling"
            /\ IF outcome = "continue"
               THEN /\ wait' = [wait EXCEPT !.elapsed = t, !.obs = obs]
                    /\ UNCHANGED <<pc, last>>
               ELSE IF wait.op = "wait_for_clickability" /\ ~is_waited(outcome, r).raised
               THEN /\ wait' = [wait EXCEPT !.obs = obs,
                                            !.elapsed = IF outcome = "value" THEN @ ELSE t,
                                            !.clickable = is_waited(outcome, r).value]
                    /\ pc' = "after_wait"
                    /\ UNCHANGED last
               ELSE /\ wait' = NoWait
                    /\ pc' = "idle"
                    /\ last' = Result(wait.op, wait.timeout, is_waited(outcome, r), obs)
            /\ UNCHANGED <<selector, locator, driver, ctor, frames, scopes, doc, url>>

\* wait_for_clickability after is_clickable has returned
Finish_wait_for_clickability ==
    /\ pc = "after_wait"
    /\ pc' = "idle"
    /\ wait' = NoWait
    /\ last' = Result("wait_for_clickability",
                      [timeout |-> wait.timeout, error_msg |-> wait.error_msg],
                      wait_for_clickability(wait.clickable, wait.timeout, wait.error_msg),
                      wait.obs)
    /\ UNCHANGED <<selector, locator, driver, ctor, frames, scopes, doc, url>>

\* the page changes under the descriptor: a node appears
AddNode ==
    \E n \in Nodes :
        /\ Len(doc) < MaxNodes
        /\ doc' = Append(doc, n)
        /\ last' = NoResult
        /\ UNCHANGED <<selector, locator, driver, ctor, frames, scopes, url, pc, wait>>

\* a node goes away
RemoveNode ==
    \E i \in 1..Len(doc) :
        /\ doc' = SubSeq(doc, 1, i - 1) \o SubSeq(doc, i + 1, Len(doc))
        /\ last' = NoResult
        /\ UNCHANGED <<selector, locator, driver, ctor, frames, scopes, url, pc, wait>>

\* the browser navigates
Navigate ==
    \E u \in Urls :
        /\ u # url
        /\ url' = u
        /\ last' = NoResult
        /\ UNCHANGED <<selector, locator, driver, ctor, frames, scopes, doc, pc, wait>>

\* the lookups and the node operations
NextLookup ==
    \/ Call_element
    \/ Call_elements
    \/ Call_getitem
    \/ Call_getitem_slice
    \/ Call_len
    \/ Call_is_enabled
    \/ Call_click
    \/ Call_is_present_now
    \/ Call_is_visible_now
    \/ Call_text
    \/ Call_get_attribute
    \/ AddNode
    \/ RemoveNode
    \/ Navigate

\* format scopes and the lookups made inside them
NextFormat ==
    \/ Call_format
    \/ Exit_format
    \/ Call_element
    \/ Call_elements
    \/ AddNode
    \/ RemoveNode

\* the polling waits
NextWait ==
    \/ Call_wait
    \/ Poll
    \/ Finish_wait_for_clickability
    \/ AddNode
    \/ RemoveNode
    \/ Navigate

Next ==
    \/ Call_element
    \/ Call_elements
    \/ Call_getitem
    \/ Call_getitem_slice
    \/ Call_len
    \/ Call_is_enabled
    \/ Call_click
    \/ Call_is_present_now
    \/ Call_is_visible_now
    \/ Call_text
    \/ Call_get_attribute
    \/ Call_format
    \/ Exit_format
    \/ Call_wait
    \/ Poll
    \/ Finish_wait_for_clickability
    \/ AddNode
    \/ RemoveNode
    \/ Navigate

Spec == Init /\ [][Next]_vars
SpecLookup == Init /\ [][NextLookup]_vars
SpecFormat == Init /\ [][NextFormat]_vars
SpecWait == Init /\ [][NextWait]_vars

\* ------------------------------------------------------------- the claims

\* the nodes the descriptor matches in the document as it is now
MatchedNodes == SelectSeq(doc, LAMBDA n : Matches(n, locator, selector))

\* C1: after a format scope is left, by return or by an exception of its body, the
\* selector is the one it was right before the scope was entered, and the body's
\* exception reaches the caller.
C1_FormatRestoresSelector ==
    last.op = "format_exit" =>
        /\ selector = last.arg.scope.before
        /\ last.raised = last.arg.bodyRaised
        /\ last.arg.bodyRaised => last.exc = last.arg.bodyExc

C1_Witness ==
    /\ last.op = "format_exit"
    /\ last.arg.bodyRaised
    /\ last.arg.scope.active # last.arg.scope.before

\* C2: is_present_now() and is_visible_now() never raise when no node matches and
\* return False then; with a match is_present_now() returns True and
\* is_visible_now() the displayed flag of the first matching node.
C2_NowChecksSwallowNotFound ==
    last.op \in {"is_present_now", "is_visible_now"} =>
        /\ ~last.raised
        /\ last.value = IF MatchedNodes = <<>> THEN FALSE
                        ELSE IF last.op = "is_present_now" THEN TRUE
                        ELSE MatchedNodes[1].displayed

\* C3: descriptor[i] with i >= count() fails with ElementNotFoundError naming i;
\* with 0 <= i < count() it returns the i-th matched node.
C3_IndexOutOfRangeIsNotFound ==
    last.op = "getitem" =>
        /\ last.arg >= Len(MatchedNodes) =>
              /\ last.raised
              /\ last.exc.type = "ElementNotFoundError"
              /\ \E k \in 1..Len(last.exc.args) : last.exc.args[k].num = last.arg
        /\ (0 <= last.arg /\ last.arg < Len(MatchedNodes)) =>
              /\ ~last.raised
              /\ last.value = MatchedNodes[last.arg + 1]

C3_Witness ==
    /\ last.op = "getitem"
    /\ Len(MatchedNodes) >= 1
    /\ last.arg >= Len(MatchedNodes)
    /\ last.raised

\* C4 as stated: descriptor[a:b] with a >= count() fails with ElementNotFoundError.
C4_SliceOutOfRangeIsNotFound ==
    (/\ last.op = "getitem_slice"
     /\ ~last.arg.start.none
     /\ last.arg.start.v >= Len(MatchedNodes)) =>
        /\ last.raised
        /\ last.exc.type = "ElementNotFoundError"

\* position p (from 0) of a list of n elements lies inside the slice a:b
InSlice(p, a, b, n) ==
    /\ a.none \/ (IF a.v < 0 THEN p >= a.v + n ELSE p >= a.v)
    /\ b.none \/ (IF b.v < 0 THEN p < b.v + n ELSE p < b.v)

\* C4 amended: descriptor[a:b] never raises; it returns, in order, the matched
\* nodes whose positions lie inside a:b, none when a >= count().
C4_SliceNeverRaises ==
    last.op = "getitem_slice" =>
        LET n == Len(MatchedNodes)
            inside == {p \in 0..(n - 1) : InSlice(p, last.arg.start, last.arg.stop, n)}
            first == CHOOSE q \in inside : \A r \in inside : q <= r
        IN  /\ ~last.raised
            /\ Len(last.value) = Cardinality(inside)
            /\ \A k \in 1..Len(last.value) : last.value[k] = MatchedNodes[first + k]

C4_Witness ==
    /\ last.op = "getitem_slice"
    /\ Len(MatchedNodes) >= 1
    /\ ~last.arg.start.none
    /\ last.arg.start.v >= Len(MatchedNodes)
    /\ ~last.raised
    /\ last.value = <<>>

\* C5: is_clickable / is_visible never raise; they return False exactly when the
\* condition held at none of the polls, all of them made within the timeout, and
\* True at the first poll at which it holds.
C5_WaitReturnsBoolean ==
    last.op \in {"is_clickable", "is_visible"} =>
        /\ ~last.raised
        /\ last.obs # <<>>
        /\ \A k \in 1..Len(last.obs) : last.obs[k].at <= last.arg
        /\ \A k \in 1..(Len(last.obs) - 1) : ~last.obs[k].held
        /\ last.value = last.obs[Len(last.obs)].held

C5_Witness ==
    /\ last.op = "is_clickable"
    /\ Len(last.obs) >= 2
    /\ ~last.raised
    /\ last.value = FALSE
    /\ MatchedNodes = <<>>

\* C6: wait_for_clickability has two outcomes only: the node, when the element was
\* clickable at a poll within the timeout, and otherwise ElementNotClickableError
\* with the message and the timeout.
C6_WaitForClickabilityTwoOutcomes ==
    last.op = "wait_for_clickability" =>
        IF \E k \in 1..Len(last.obs) : last.obs[k].held
        THEN ~last.raised
        ELSE /\ last.raised
             /\ last.exc.type = "ElementNotClickableError"
             /\ \E k \in 1..Len(last.exc.args) : last.exc.args[k].num = last.arg.timeout
             /\ last.arg.error_msg # "None" =>
                   \E k \in 1..Len(last.exc.args) : last.exc.args[k].str = last.arg.error_msg

\* C7: when no node matches, elements is the empty list, len() is 0 and element
\* fails with ElementNotFoundError carrying the descriptor and the current url.
C7_NoMatch ==
    (\A i \in 1..Len(doc) : ~Matches(doc[i], locator, selector)) =>
        /\ last.op = "elements" => (~last.raised /\ last.value = <<>>)
        /\ last.op = "len" => (~last.raised /\ last.value = 0)
        /\ last.op = "element" =>
              /\ last.raised
              /\ last.exc.type = "ElementNotFoundError"
              /\ last.exc.element = Repr(selector)
              /\ last.exc.url = url

C7_Witness ==
    /\ last.op = "element"
    /\ doc # <<>>
    /\ \A i \in 1..Len(doc) : ~Matches(doc[i], locator, selector)
    /\ last.raised

\* C8: click() on an obstructed node fails with ElementNotClickableError, with no
\* match with ElementNotFoundError; neither driver signal reaches the caller; a
\* click that succeeds returns None; the descriptor is as constructed.
C8_ClickTranslatesErrors ==
    last.op = "click" =>
        /\ MatchedNodes = <<>> => (last.raised /\ last.exc.type = "ElementNotFoundError")
        /\ (MatchedNodes # <<>> /\ MatchedNodes[1].obstructed) =>
              (last.raised /\ last.exc.type = "ElementNotClickableError"
                 /\ last.exc.element = Repr(selector) /\ last.exc.url = url)
        /\ last.raised =>
              last.exc.type \notin {"NoSuchElementException", "ElementClickInterceptedException"}
        /\ (MatchedNodes # <<>> /\ MatchedNodes[1].displayed /\ ~MatchedNodes[1].obstructed) =>
              (~last.raised /\ last.value = "None")
        /\ selector = ctor.selector /\ locator = ctor.locator /\ driver = ctor.driver

C8_Witness ==
    /\ last.op = "click"
    /\ last.raised
    /\ last.exc.type = "ElementNotClickableError"

\* C9: locator and driver are always as constructed, and so is the selector
\* whenever no format scope is active.
C9_DescriptorUnchanged ==
    /\ locator = ctor.locator
    /\ driver = ctor.driver
    /\ scopes = <<>> => selector = ctor.selector

C9_Witness ==
    /\ last.op = "format"
    /\ last.raised
    /\ last.exc.type \in {"IndexError", "KeyError"}
    /\ scopes = <<>>

\* C10: format scopes nest as a stack: the active selector is the enclosing one
\* with the placeholders substituted, lookups inside a scope use it, and leaving
\* a scope brings back the selector of the enclosing scope, or the template.
C10_ScopesNest ==
    /\ selector = IF scopes = <<>> THEN ctor.selector ELSE scopes[Len(scopes)].active
    /\ \A k \in 1..Len(scopes) :
          scopes[k].before = IF k = 1 THEN ctor.selector ELSE scopes[k - 1].active
    /\ (last.op = "format" /\ ~last.raised) =>
          /\ StrFormat(last.arg.before, last.arg.args, last.arg.kwargs).ok
          /\ selector = StrFormat(last.arg.before, last.arg.args, last.arg.kwargs).val
          /\ (last.arg.before = DivTemplate /\ last.arg.args = <<(<<"3">>)>>) => selector = Div3
    /\ (last.op = "format" /\ last.raised) =>
          ~StrFormat(last.arg.before, last.arg.args, last.arg.kwargs).ok
    /\ (last.op = "elements" /\ scopes # <<>>) =>
          last.value = SelectSeq(doc, LAMBDA n : Matches(n, locator, scopes[Len(scopes)].active))
    /\ (last.op = "element" /\ scopes # <<>>) =>
          IF last.raised THEN last.exc.element = Repr(scopes[Len(scopes)].active)
          ELSE Matches(last.value, locator, scopes[Len(scopes)].active)

C10_Witness ==
    /\ last.op = "format_exit"
    /\ Len(scopes) = 1
    /\ selector # ctor.selector
    /\ last.arg.scope.active # selector

====
